---- MODULE Spec2Model ----
(***************************************************************************)
(* Model of the Vpath class of src/src/index.ts: an immutable value object *)
(* for one filesystem location with asynchronous navigation (getParent,    *)
(* getChildren, getRoute) on top of node's fs, os, path and child_process. *)
(*                                                                         *)
(* A string is a sequence of one-character strings: "/a" is <<"/", "a">>.  *)
(* The node path functions the class calls are modelled from what node's   *)
(* lib/path.js computes, character by character or segment by segment.     *)
(* basename and extname are stored by the constructor and read by nothing; *)
(* they are left out of the instance record.                               *)
(***************************************************************************)
EXTENDS Integers, Sequences, FiniteSets, TLC

(***************************************************************************)
(* Bounds of the model.                                                    *)
(***************************************************************************)
\* longest path string handed to create()
MaxLen == 4
\* longest stdout of the drive-enumeration command
MaxOut == 3

(***************************************************************************)
(* Characters and strings.                                                 *)
(***************************************************************************)
Slash == "/"
Backslash == "\\"
Colon == ":"
Dot == "."

\* the letters isWindowsDeviceRoot accepts, as far as the alphabets below reach
UpperLetters == {"A", "B", "C", "D"}
LowerLetters == {"a", "b", "c", "d"}
Letters == UpperLetters \cup LowerLetters

\* String.prototype.toUpperCase on one character
ToUpperChar(c) ==
  CASE c = "a" -> "A"
    [] c = "b" -> "B"
    [] c = "c" -> "C"
    [] c = "d" -> "D"
    [] OTHER -> c

ToUpperCase(s) == [i \in 1..Len(s) |-> ToUpperChar(s[i])]

\* UTF-16 code unit of a character, the order Array.prototype.sort uses
CharCode(c) ==
  CASE c = " " -> 32
    [] c = "." -> 46
    [] c = "/" -> 47
    [] c = "7" -> 55
    [] c = ":" -> 58
    [] c = "A" -> 65
    [] c = "B" -> 66
    [] c = "C" -> 67
    [] c = "D" -> 68
    [] c = "\\" -> 92
    [] c = "a" -> 97
    [] c = "b" -> 98
    [] c = "c" -> 99
    [] c = "d" -> 100
    [] OTHER -> 10

\* all strings over alphabet of length at most n
StringsUpTo(alphabet, n) == UNION {[1..k -> alphabet] : k \in 0..n}

Last(s) == s[Len(s)]
Front(s) == SubSeq(s, 1, Len(s) - 1)

RECURSIVE SplitFrom(_, _, _, _)
SplitFrom(s, seps, i, seg) ==
  IF i > Len(s) THEN <<seg>>
  ELSE IF s[i] \in seps THEN <<seg>> \o SplitFrom(s, seps, i + 1, <<>>)
  ELSE SplitFrom(s, seps, i + 1, Append(seg, s[i]))

\* String.prototype.split on single-character separators
Split(s, seps) == SplitFrom(s, seps, 1, <<>>)

RECURSIVE Join(_, _)
Join(segs, sep) ==
  IF Len(segs) = 0 THEN <<>>
  ELSE IF Len(segs) = 1 THEN segs[1]
  ELSE segs[1] \o <<sep>> \o Join(Tail(segs), sep)

(***************************************************************************)
(* node lib/path.js: normalizeString.  Empty and "." segments are dropped, *)
(* ".." removes the segment before it unless there is none or it is "..",  *)
(* and is then kept only when allowAboveRoot.                              *)
(***************************************************************************)
DotDot == <<Dot, Dot>>

RECURSIVE NormFold(_, _, _, _)
NormFold(segs, i, res, allowAboveRoot) ==
  IF i > Len(segs) THEN res
  ELSE LET seg == segs[i] IN
    IF seg = <<>> \/ seg = <<Dot>> THEN NormFold(segs, i + 1, res, allowAboveRoot)
    ELSE IF seg = DotDot THEN
      IF Len(res) > 0 /\ Last(res) # DotDot
        THEN NormFold(segs, i + 1, Front(res), allowAboveRoot)
      ELSE IF allowAboveRoot
        THEN NormFold(segs, i + 1, Append(res, DotDot), allowAboveRoot)
      ELSE NormFold(segs, i + 1, res, allowAboveRoot)
    ELSE NormFold(segs, i + 1, Append(res, seg), allowAboveRoot)

NormalizeString(path, allowAboveRoot, sep, seps) ==
  Join(NormFold(Split(path, seps), 1, <<>>, allowAboveRoot), sep)

\* the backward scan of dirname, on 0-based indices: the index of the
\* separator before the last segment, or -1
RECURSIVE ScanEnd(_, _, _, _, _)
ScanEnd(path, i, lo, matchedSlash, seps) ==
  IF i < lo THEN -1
  ELSE IF path[i + 1] \in seps THEN
    IF ~matchedSlash THEN i ELSE ScanEnd(path, i - 1, lo, matchedSlash, seps)
  ELSE ScanEnd(path, i - 1, lo, FALSE, seps)

(***************************************************************************)
(* path.posix                                                              *)
(***************************************************************************)
PosixSeps == {Slash}

PosixNormalizeTail(path, isAbsolute, trailingSeparator, tail) ==
  IF Len(tail) = 0
    THEN IF isAbsolute THEN <<Slash>>
         ELSE IF trailingSeparator THEN <<Dot, Slash>> ELSE <<Dot>>
  ELSE (IF isAbsolute THEN <<Slash>> ELSE <<>>) \o tail
       \o (IF trailingSeparator THEN <<Slash>> ELSE <<>>)

PosixNormalize(path) ==
  IF Len(path) = 0 THEN <<Dot>>
  ELSE PosixNormalizeTail(path, path[1] = Slash, Last(path) = Slash,
         NormalizeString(path, path[1] # Slash, Slash, PosixSeps))

PosixDirnameEnd(path, hasRoot, end) ==
  IF end = -1 THEN (IF hasRoot THEN <<Slash>> ELSE <<Dot>>)
  ELSE IF hasRoot /\ end = 1 THEN <<Slash, Slash>>
  ELSE SubSeq(path, 1, end)

PosixDirname(path) ==
  IF Len(path) = 0 THEN <<Dot>>
  ELSE PosixDirnameEnd(path, path[1] = Slash,
         ScanEnd(path, Len(path) - 1, 1, TRUE, PosixSeps))

\* one round of the loop of path.posix.resolve
PosixResolveStep(st, path) ==
  IF st.isAbsolute \/ Len(path) = 0 THEN st
  ELSE [path |-> path \o <<Slash>> \o st.path, isAbsolute |-> path[1] = Slash]

PosixResolved(st, tail) ==
  IF st.isAbsolute THEN <<Slash>> \o tail
  ELSE IF Len(tail) > 0 THEN tail ELSE <<Dot>>

PosixResolveEnd(st) ==
  PosixResolved(st, NormalizeString(st.path, ~st.isAbsolute, Slash, PosixSeps))

\* path.posix.resolve(base, child) with process.cwd() = cwdStr
PosixResolve(base, child, cwdStr) ==
  PosixResolveEnd(
    PosixResolveStep(
      PosixResolveStep(
        PosixResolveStep([path |-> <<>>, isAbsolute |-> FALSE], child),
        base),
      cwdStr))

(***************************************************************************)
(* path.win32.  Paths that begin with two separators (UNC) are outside the *)
(* strings the model feeds in, and none of these functions produces one    *)
(* from a path that does not begin with two separators.                    *)
(***************************************************************************)
Win32Seps == {Slash, Backslash}

IsWindowsDeviceRoot(c) == c \in Letters

\* the root of a path: its device ("C:" or none), where its tail starts
\* (0-based) and whether it is absolute
Win32Root(path) ==
  IF Len(path) = 0 THEN [device |-> <<>>, rootEnd |-> 0, isAbsolute |-> FALSE]
  ELSE IF path[1] \in Win32Seps
    THEN [device |-> <<>>, rootEnd |-> 1, isAbsolute |-> TRUE]
  ELSE IF Len(path) > 1 /\ IsWindowsDeviceRoot(path[1]) /\ path[2] = Colon
    THEN IF Len(path) > 2 /\ path[3] \in Win32Seps
           THEN [device |-> SubSeq(path, 1, 2), rootEnd |-> 3, isAbsolute |-> TRUE]
         ELSE [device |-> SubSeq(path, 1, 2), rootEnd |-> 2, isAbsolute |-> FALSE]
  ELSE [device |-> <<>>, rootEnd |-> 0, isAbsolute |-> FALSE]

Win32NormalizeTail(path, r, t0) ==
  LET t1 == IF Len(t0) = 0 /\ ~r.isAbsolute THEN <<Dot>> ELSE t0
      tail == IF Len(t1) > 0 /\ Last(path) \in Win32Seps
                THEN Append(t1, Backslash) ELSE t1
  IN IF r.isAbsolute THEN r.device \o <<Backslash>> \o tail
     ELSE r.device \o tail

Win32NormalizeRoot(path, r) ==
  Win32NormalizeTail(path, r,
    IF r.rootEnd < Len(path)
      THEN NormalizeString(SubSeq(path, r.rootEnd + 1, Len(path)),
                           ~r.isAbsolute, Backslash, Win32Seps)
    ELSE <<>>)

Win32Normalize(path) ==
  IF Len(path) = 0 THEN <<Dot>>
  ELSE IF Len(path) = 1 THEN (IF path[1] = Slash THEN <<Backslash>> ELSE path)
  ELSE Win32NormalizeRoot(path, Win32Root(path))

Win32DirnameEnd(path, r, end) ==
  IF end = -1
    THEN IF r.rootEnd = 0 THEN <<Dot>> ELSE SubSeq(path, 1, r.rootEnd)
  ELSE SubSeq(path, 1, end)

Win32DirnameRoot(path, r) ==
  Win32DirnameEnd(path, r, ScanEnd(path, Len(path) - 1, r.rootEnd, TRUE, Win32Seps))

Win32Dirname(path) ==
  IF Len(path) = 0 THEN <<Dot>>
  ELSE IF Len(path) = 1 THEN (IF path[1] \in Win32Seps THEN path ELSE <<Dot>>)
  ELSE Win32DirnameRoot(path, Win32Root(path))

\* the working directory path.win32.resolve falls back to for a device
Win32CwdOf(dev, cwdStr) ==
  IF Len(dev) = 0 \/ ToUpperCase(dev) = ToUpperCase(Win32Root(cwdStr).device)
    THEN cwdStr
  ELSE dev \o <<Backslash>>

\* one round of the loop of path.win32.resolve, on an argument whose root is
\* r and with the device resolved so far become dev
Win32ResolveTail(st, path, r, dev) ==
  IF st.isAbsolute
    THEN [st EXCEPT !.device = dev, !.done = Len(dev) > 0]
  ELSE [device |-> dev,
        tail |-> SubSeq(path, r.rootEnd + 1, Len(path)) \o <<Backslash>> \o st.tail,
        isAbsolute |-> r.isAbsolute,
        done |-> r.isAbsolute /\ Len(dev) > 0]

Win32ResolveRoot(st, path, r) ==
  IF Len(r.device) > 0 /\ Len(st.device) > 0
     /\ ToUpperCase(r.device) # ToUpperCase(st.device)
    THEN st
  ELSE Win32ResolveTail(st, path, r,
         IF Len(r.device) > 0 /\ Len(st.device) = 0 THEN r.device ELSE st.device)

Win32ResolveStep(st, path) ==
  IF Len(path) = 0 THEN st ELSE Win32ResolveRoot(st, path, Win32Root(path))

\* the loop over args[k], k = Len(args) down to 1, and then (k = 0) over the
\* working directory, until an absolute path with a device is reached
RECURSIVE Win32ResolveLoop(_, _, _, _)
Win32ResolveLoop(args, k, cwdStr, st) ==
  IF k < 0 \/ st.done THEN st
  ELSE Win32ResolveLoop(args, k - 1, cwdStr,
         Win32ResolveStep(st, IF k > 0 THEN args[k]
                              ELSE Win32CwdOf(st.device, cwdStr)))

Win32Resolved(r, tail) ==
  IF r.isAbsolute THEN r.device \o <<Backslash>> \o tail
  ELSE IF Len(r.device \o tail) > 0 THEN r.device \o tail ELSE <<Dot>>

Win32ResolveEnd(r) ==
  Win32Resolved(r, NormalizeString(r.tail, ~r.isAbsolute, Backslash, Win32Seps))

Win32ResolveArgs(args, cwdStr) ==
  Win32ResolveEnd(Win32ResolveLoop(args, Len(args), cwdStr,
    [device |-> <<>>, tail |-> <<>>, isAbsolute |-> FALSE, done |-> FALSE]))

\* path.win32.resolve(base, child) with process.cwd() = cwdStr
Win32Resolve(base, child, cwdStr) == Win32ResolveArgs(<<base, child>>, cwdStr)

\* WIN_ROOT_PATTERN.test(s): /^[a-z]:\\?$/i
WIN_ROOT_PATTERN(s) ==
  /\ Len(s) \in {2, 3}
  /\ s[1] \in Letters
  /\ s[2] = Colon
  /\ Len(s) = 3 => s[3] = Backslash

(***************************************************************************)
(* The environment: process.platform, one of a family of small directory   *)
(* trees, process.cwd() and os.homedir().  A key is the sequence of names  *)
(* from the root (of drive C: on win32) to an entry.  Drive D: holds an    *)
(* empty root directory; no other drive exists.                            *)
(***************************************************************************)
VARIABLES platform, fs, cwd, home

NameA == <<"a">>
NameB == <<"b">>
Names == {NameA, NameB}
FsNodes ==
  {<<NameA>>, <<NameB>>, <<NameA, NameA>>, <<NameA, NameB>>,
   <<NameA, NameB, NameA>>}
Kinds == {"none", "file", "dir"}

\* what each place of the tree may hold
KindsAt(k) ==
  IF k = <<NameA>> THEN {"none", "file", "dir"}
  ELSE IF k = <<NameB>> THEN {"file"}
  ELSE IF k = <<NameA, NameB>> THEN {"none", "dir"}
  ELSE {"none", "file"}

\* an entry exists only inside a directory
Trees ==
  {t \in [FsNodes -> Kinds] :
     \A k \in FsNodes :
       /\ t[k] \in KindsAt(k)
       /\ (Len(k) > 1 /\ t[k] # "none") => t[Front(k)] = "dir"}

\* the home directory: the deepest directory of the tree
HomeKey(t) ==
  IF t[<<NameA, NameB>>] = "dir" THEN <<NameA, NameB>>
  ELSE IF t[<<NameA>>] = "dir" THEN <<NameA>>
  ELSE <<>>

\* the key of the root directory of drive D:
DriveDKey == <<<<"D", Colon>>>>

Kind(key) ==
  IF key = <<>> THEN "dir"
  ELSE IF platform = "win32" /\ key = DriveDKey THEN "dir"
  ELSE IF key \in FsNodes THEN fs[key]
  ELSE "none"

DirKeys == {k \in FsNodes \cup {<<>>} : Kind(k) = "dir"}

\* the names readdir finds in a directory
ChildNames(key) == {n \in Names : Kind(Append(key, n)) # "none"}

PosixKeyStr(key) == <<Slash>> \o Join(key, Slash)
Win32KeyStr(key) == <<"C", Colon, Backslash>> \o Join(key, Backslash)
KeyStr(key) == IF platform = "win32" THEN Win32KeyStr(key) ELSE PosixKeyStr(key)

\* process.cwd() and os.homedir()
CwdStr == KeyStr(cwd)
HomeDir == KeyStr(home)

\* the walk of a path by the kernel: each component is looked up in the
\* directory reached so far; NoKey when a component is missing or is taken
\* inside something that is no directory
NoKey == <<<<>>>>

RECURSIVE PosixWalk(_, _, _)
PosixWalk(segs, i, key) ==
  IF i > Len(segs) THEN key
  ELSE IF Kind(key) # "dir" THEN NoKey
  ELSE LET seg == segs[i] IN
    IF seg = <<>> \/ seg = <<Dot>> THEN PosixWalk(segs, i + 1, key)
    ELSE IF seg = DotDot
      THEN PosixWalk(segs, i + 1, IF Len(key) = 0 THEN key ELSE Front(key))
    ELSE IF Kind(Append(key, seg)) = "none" THEN NoKey
    ELSE PosixWalk(segs, i + 1, Append(key, seg))

PosixLocate(path) ==
  IF Len(path) = 0 THEN NoKey
  ELSE PosixWalk(Split(path, PosixSeps), 1, IF path[1] = Slash THEN <<>> ELSE cwd)

\* the entry a resolved win32 path names, r being its root
Win32KeyOf(full, r) ==
  IF r.rootEnd = Len(full) THEN <<>>
  ELSE Split(SubSeq(full, r.rootEnd + 1, Len(full)), Win32Seps)

Win32LocateKey(drive, key) ==
  IF drive = "C" /\ Kind(key) # "none" THEN key
  ELSE IF drive = "D" /\ key = <<>> THEN DriveDKey
  ELSE NoKey

Win32LocateRoot(full, r) ==
  IF Len(r.device) = 0 THEN NoKey
  ELSE Win32LocateKey(ToUpperChar(r.device[1]), Win32KeyOf(full, r))

Win32LocateFull(full) == Win32LocateRoot(full, Win32Root(full))

\* node hands the kernel path.win32.resolve(path), prefixed \\?\ : the path
\* is resolved lexically first
Win32Locate(path) ==
  IF Len(path) = 0 THEN NoKey
  ELSE Win32LocateFull(Win32ResolveArgs(<<path>>, CwdStr))

Locate(path) == IF platform = "win32" THEN Win32Locate(path) ELSE PosixLocate(path)

\* fs.stat(path): the StatsInterface of the entry, or a failure
StatOf(kind) ==
  [ok |-> TRUE, isFile |-> kind = "file", isDirectory |-> kind = "dir",
   isSymbolicLink |-> FALSE]

StatFailure ==
  [ok |-> FALSE, isFile |-> FALSE, isDirectory |-> FALSE, isSymbolicLink |-> FALSE]

StatKey(key) == IF key = NoKey THEN StatFailure ELSE StatOf(Kind(key))

Stat(path) == StatKey(Locate(path))

\* fs.readdir(path) succeeds on directories only
IsDirStat(stats) == stats.ok /\ stats.isDirectory

ReaddirOk(path) == IsDirStat(Stat(path))

ReaddirNames(path) == ChildNames(Locate(path))

(***************************************************************************)
(* The Vpath class.                                                        *)
(***************************************************************************)
Normalize(path) ==
  IF platform = "win32" THEN Win32Normalize(path) ELSE PosixNormalize(path)

Dirname(path) ==
  IF platform = "win32" THEN Win32Dirname(path) ELSE PosixDirname(path)

Resolve(base, child) ==
  IF platform = "win32" THEN Win32Resolve(base, child, CwdStr)
  ELSE PosixResolve(base, child, CwdStr)

ROOT_STATS ==
  [ok |-> TRUE, isFile |-> FALSE, isDirectory |-> TRUE, isSymbolicLink |-> FALSE]

\* the private constructor
NewVpath(filePath, vpathType, stats) ==
  [filePath |-> Normalize(filePath),
   isRoot |-> vpathType # "NORMAL",
   isFile |-> stats.isFile,
   isDirectory |-> stats.isDirectory,
   isSymbolicLink |-> stats.isSymbolicLink,
   isOtherFileType |->
     ~stats.isFile /\ ~stats.isDirectory /\ ~stats.isSymbolicLink,
   vpathType |-> vpathType]

\* no instance
NoVpath ==
  [filePath |-> <<>>, isRoot |-> FALSE, isFile |-> FALSE, isDirectory |-> FALSE,
   isSymbolicLink |-> FALSE, isOtherFileType |-> FALSE, vpathType |-> "NONE"]

\* a settled promise of one Vpath: the instance or the failure, and the
\* number of fs.stat calls made on the way
NoError == [syscall |-> "none", path |-> <<>>]
Resolved(v, n) == [ok |-> TRUE, value |-> v, error |-> NoError, lookups |-> n]
Rejected(syscall, path, n) ==
  [ok |-> FALSE, value |-> NoVpath,
   error |-> [syscall |-> syscall, path |-> path], lookups |-> n]

\* new Vpath(filePath, vpathType, await promisify(fs.stat)(filePath))
VpathOfStat(filePath, vpathType, stats) ==
  IF stats.ok THEN Resolved(NewVpath(filePath, vpathType, stats), 1)
  ELSE Rejected("stat", filePath, 1)

createVpath(filePath, vpathType) ==
  VpathOfStat(filePath, vpathType, Stat(filePath))

create(filePath) == createVpath(filePath, "NORMAL")

getRoot ==
  IF platform = "win32" THEN Resolved(NewVpath(<<>>, "WIN32_ROOT", ROOT_STATS), 0)
  ELSE createVpath(<<Slash>>, "OTHER_ROOT")

getHome == createVpath(HomeDir, "NORMAL")

\* getParent without its first line: a root is treated like any other path
getParentWithoutRootCheck(this) ==
  IF platform = "win32" /\ WIN_ROOT_PATTERN(this.filePath) THEN getRoot
  ELSE IF platform # "win32" /\ PosixDirname(this.filePath) = <<Slash>> THEN getRoot
  ELSE create(Dirname(this.filePath))

getParent(this) ==
  IF this.isRoot THEN Resolved(this, 0)
  ELSE IF platform = "win32" /\ WIN_ROOT_PATTERN(this.filePath) THEN getRoot
  ELSE IF platform # "win32" /\ PosixDirname(this.filePath) = <<Slash>> THEN getRoot
  ELSE create(Dirname(this.filePath))

(***************************************************************************)
(* getChildrenOfWin32Root: the parse of the command's stdout.              *)
(***************************************************************************)
\* stdout.split(/\r\n|\n|\r/)
RECURSIVE SplitLinesFrom(_, _, _)
SplitLinesFrom(s, i, line) ==
  IF i > Len(s) THEN <<line>>
  ELSE IF s[i] = "\r" /\ i < Len(s) /\ s[i + 1] = "\n"
    THEN <<line>> \o SplitLinesFrom(s, i + 2, <<>>)
  ELSE IF s[i] \in {"\n", "\r"} THEN <<line>> \o SplitLinesFrom(s, i + 1, <<>>)
  ELSE SplitLinesFrom(s, i + 1, Append(line, s[i]))

SplitLines(s) == SplitLinesFrom(s, 1, <<>>)

\* x.replace(/:/g, '')
StripColons(x) == SelectSeq(x, LAMBDA c : c # Colon)

DriveToken(x) == ToUpperCase(StripColons(x))

KeepToken(x) == Len(x) = 1

\* drives.sort(): ascending code units; every element is one character
RECURSIVE InsertSorted(_, _)
InsertSorted(sorted, x) ==
  IF Len(sorted) = 0 THEN <<x>>
  ELSE IF CharCode(x[1]) < CharCode(sorted[1][1]) THEN <<x>> \o sorted
  ELSE <<sorted[1]>> \o InsertSorted(Tail(sorted), x)

\* the drives left in the order the command printed them
SortDrivesOmitted(drives) == drives

RECURSIVE SortDrives(_)
SortDrives(drives) ==
  IF Len(drives) = 0 THEN <<>>
  ELSE InsertSorted(SortDrives(Front(drives)), Last(drives))

DriveTokens(lines) == [i \in 1..Len(lines) |-> DriveToken(lines[i])]

ParseDrives(stdout) ==
  SortDrives(SelectSeq(DriveTokens(SplitLines(stdout)), KeepToken))

\* `${x}:`
DrivePath(x) == x \o <<Colon>>

(***************************************************************************)
(* The caller.  It holds at most one instance (obj), remembers the         *)
(* instance whose getChildren gave it (from, if any), and sees the         *)
(* settlement of its last call (ret).  A call of getChildren or getRoute   *)
(* is in flight while pc is not "idle".                                    *)
(***************************************************************************)
VARIABLES pc, obj, from, ret, ch, rt

vars == <<platform, fs, cwd, home, pc, obj, from, ret, ch, rt>>

PosixAlphabet == {Slash, "a", "b", Dot}
Win32Alphabet == {Backslash, Colon, "C", "a", Dot}
StdoutAlphabet == {"C", "d", Colon, " ", "7", "\n", "\r"}

IsUNC(s) == Len(s) > 1 /\ s[1] \in Win32Seps /\ s[2] \in Win32Seps

\* the path strings a caller hands to create()
PosixInputs == StringsUpTo(PosixAlphabet, MaxLen)
Win32Inputs == {s \in StringsUpTo(Win32Alphabet, MaxLen) : ~IsUNC(s)}
PathInputs == IF platform = "win32" THEN Win32Inputs ELSE PosixInputs

\* what the drive-enumeration command may print
Stdouts == StringsUpTo(StdoutAlphabet, MaxOut)

\* the deepest recursion of getRoute the model follows
MaxRoute == MaxLen + 3

Perms(S) ==
  {f \in [1..Cardinality(S) -> S] :
     \A i, j \in 1..Cardinality(S) : f[i] = f[j] => i = j}

NoRet ==
  [op |-> "none", this |-> NoVpath, from |-> NoVpath, arg |-> <<>>,
   ok |-> FALSE, value |-> NoVpath, values |-> <<>>, error |-> NoError,
   lookups |-> 0, listed |-> FALSE, listing |-> <<>>, entries |-> <<>>,
   order |-> <<>>]

NoCh ==
  [this |-> NoVpath, arg |-> <<>>, listing |-> <<>>, entries |-> <<>>,
   slots |-> <<>>, pending |-> {}, order |-> <<>>]

NoRt == [this |-> NoVpath, cur |-> NoVpath, frames |-> <<>>, lookups |-> 0]

\* the settlement of a call that yields one instance
Settled(op, this, arg, r) ==
  [NoRet EXCEPT !.op = op, !.this = this, !.from = from, !.arg = arg,
                !.ok = r.ok, !.value = r.value, !.error = r.error,
                !.lookups = r.lookups]

\* the caller makes a call only once it has dealt with the last settlement
Fresh == pc = "idle" /\ obj = NoVpath /\ ret = NoRet
Ready == pc = "idle" /\ obj # NoVpath /\ ret = NoRet

Create(p) ==
  /\ Fresh
  /\ \E r \in {create(p)} :
       /\ ret' = Settled("create", NoVpath, p, r)
       /\ obj' = r.value
  /\ from' = NoVpath
  /\ UNCHANGED <<platform, fs, cwd, home, pc, ch, rt>>

CreateAny == Fresh /\ \E p \in PathInputs : Create(p)

GetRoot ==
  /\ Fresh
  /\ \E r \in {getRoot} :
       /\ ret' = Settled("getRoot", NoVpath, <<>>, r)
       /\ obj' = r.value
  /\ from' = NoVpath
  /\ UNCHANGED <<platform, fs, cwd, home, pc, ch, rt>>

GetHome ==
  /\ Fresh
  /\ \E r \in {getHome} :
       /\ ret' = Settled("getHome", NoVpath, <<>>, r)
       /\ obj' = r.value
  /\ from' = NoVpath
  /\ UNCHANGED <<platform, fs, cwd, home, pc, ch, rt>>

GetParent ==
  /\ Ready
  /\ \E r \in {getParent(obj)} :
       /\ ret' = Settled("getParent", obj, <<>>, r)
       /\ obj' = IF r.ok THEN r.value ELSE obj
       /\ from' = IF r.ok THEN NoVpath ELSE from
  /\ UNCHANGED <<platform, fs, cwd, home, pc, ch, rt>>

\* the caller goes on with an element of the sequence it was given
Take(i) ==
  /\ pc = "idle" /\ ret.ok /\ ret.op \in {"getChildren", "getRoute"}
  /\ i \in 1..Len(ret.values)
  /\ obj' = ret.values[i]
  /\ from' = IF ret.op = "getChildren" THEN ret.this ELSE NoVpath
  /\ ret' = NoRet
  /\ UNCHANGED <<platform, fs, cwd, home, pc, ch, rt>>

\* the caller goes on with the instance it holds
Forget ==
  /\ pc = "idle" /\ obj # NoVpath /\ ret # NoRet
  /\ ret' = NoRet
  /\ UNCHANGED <<platform, fs, cwd, home, pc, obj, from, ch, rt>>

\* the caller lets go of what it holds
Drop ==
  /\ pc = "idle" /\ (obj # NoVpath \/ ret # NoRet)
  /\ obj' = NoVpath /\ from' = NoVpath /\ ret' = NoRet
  /\ UNCHANGED <<platform, fs, cwd, home, pc, ch, rt>>

(***************************************************************************)
(* getChildren: the listing (or the command), then Promise.all over one    *)
(* create() per entry.  The lookups settle one at a time in any order.     *)
(***************************************************************************)
ChildrenRet(this, arg, listed, listing, entries) ==
  [NoRet EXCEPT !.op = "getChildren", !.this = this, !.from = from,
                !.arg = arg, !.listed = listed, !.listing = listing,
                !.entries = entries]

\* Promise.all(entries.map(create)): with no entry it resolves at once
StartLookups(arg, listing, entries) ==
  IF Len(entries) = 0
    THEN /\ ret' = [ChildrenRet(obj, arg, TRUE, listing, entries) EXCEPT !.ok = TRUE]
         /\ UNCHANGED <<pc, ch>>
  ELSE /\ pc' = "children"
       /\ ch' = [this |-> obj, arg |-> arg, listing |-> listing,
                 entries |-> entries,
                 slots |-> [i \in 1..Len(entries) |-> NoVpath],
                 pending |-> 1..Len(entries), order |-> <<>>]
       /\ ret' = NoRet

\* fs.readdir rejects
GetChildrenListingFails ==
  /\ Ready /\ obj.vpathType # "WIN32_ROOT"
  /\ ~ReaddirOk(obj.filePath)
  /\ ret' = [ChildrenRet(obj, <<>>, FALSE, <<>>, <<>>) EXCEPT
               !.error = [syscall |-> "scandir", path |-> obj.filePath]]
  /\ UNCHANGED <<platform, fs, cwd, home, pc, obj, from, ch, rt>>

\* fs.readdir resolves: the names found, in the order the directory gives
\* them, among them possibly names of entries that are gone by the time
\* their lookup runs
GetChildrenList ==
  /\ Ready /\ obj.vpathType # "WIN32_ROOT"
  /\ ReaddirOk(obj.filePath)
  /\ \E S \in SUBSET Names :
       /\ ReaddirNames(obj.filePath) \subseteq S
       /\ \E listing \in Perms(S) :
            StartLookups(<<>>, listing,
              [i \in 1..Len(listing) |-> Resolve(obj.filePath, listing[i])])
  /\ UNCHANGED <<platform, fs, cwd, home, obj, from, rt>>

\* exec('wmic logicaldisk get caption') rejects
GetChildrenExecFails ==
  /\ Ready /\ obj.vpathType = "WIN32_ROOT"
  /\ ret' = [ChildrenRet(obj, <<>>, FALSE, <<>>, <<>>) EXCEPT
               !.error = [syscall |-> "exec", path |-> <<>>]]
  /\ UNCHANGED <<platform, fs, cwd, home, pc, obj, from, ch, rt>>

getChildrenOfWin32Root ==
  /\ Ready /\ obj.vpathType = "WIN32_ROOT"
  /\ \E stdout \in Stdouts :
       \E drives \in {ParseDrives(stdout)} :
         StartLookups(stdout, drives,
           [i \in 1..Len(drives) |-> DrivePath(drives[i])])
  /\ UNCHANGED <<platform, fs, cwd, home, obj, from, rt>>

\* the values in the order the lookups settled
AllValuesAsSettled(slots, order) == [k \in 1..Len(order) |-> slots[order[k]]]

\* the array Promise.all resolves with: the values in the order of the
\* promises it was given
AllValues(slots, order) == slots

\* what a lookup that resolves does to the call: the last one resolves it
ChildResolves(i, slots, order) ==
  IF ch.pending = {i}
    THEN /\ ret' = [ChildrenRet(ch.this, ch.arg, TRUE, ch.listing, ch.entries)
                      EXCEPT !.ok = TRUE,
                             !.values = AllValues(slots, order),
                             !.lookups = Len(order),
                             !.order = order]
         /\ pc' = "idle"
         /\ ch' = NoCh
  ELSE /\ ch' = [ch EXCEPT !.slots = slots, !.pending = @ \ {i},
                           !.order = order]
       /\ UNCHANGED <<pc, ret>>

\* a rejected lookup passed over: the call goes on with the other entries
ChildRejectsPassedOver(i, r) == ChildResolves(i, ch.slots, Append(ch.order, i))

\* what a lookup that rejects does to the call
ChildRejects(i, r) ==
  /\ ret' = [ChildrenRet(ch.this, ch.arg, TRUE, ch.listing, ch.entries) EXCEPT
               !.error = r.error,
               !.lookups = Len(ch.order) + 1,
               !.order = Append(ch.order, i)]
  /\ pc' = "idle"
  /\ ch' = NoCh

\* one of the lookups in flight settles
LookupSettles(i) ==
  /\ pc = "children" /\ i \in ch.pending
  /\ \E r \in {create(ch.entries[i])} :
       IF ~r.ok THEN ChildRejects(i, r)
       ELSE ChildResolves(i, [ch.slots EXCEPT ![i] = r.value], Append(ch.order, i))
  /\ UNCHANGED <<platform, fs, cwd, home, obj, from, rt>>

(***************************************************************************)
(* getRoute: the recursion goes up one getParent at a time; at a root the  *)
(* frames return, each appending its own instance.                         *)
(***************************************************************************)
RECURSIVE Reverse(_)
Reverse(s) == IF Len(s) = 0 THEN <<>> ELSE Append(Reverse(Tail(s)), s[1])

RouteRet(ok, values, error, lookups) ==
  [NoRet EXCEPT !.op = "getRoute", !.this = rt.this, !.from = from,
                !.ok = ok, !.values = values, !.error = error,
                !.lookups = lookups]

GetRouteCall ==
  /\ Ready
  /\ pc' = "route"
  /\ rt' = [this |-> obj, cur |-> obj, frames |-> <<>>, lookups |-> 0]
  /\ ret' = NoRet
  /\ UNCHANGED <<platform, fs, cwd, home, obj, from, ch>>

\* [this, ...(await parent.getRoute())]: each frame puts itself first
RouteValuesSelfFirst(cur, frames) == frames \o <<cur>>

\* [...(await parent.getRoute()), this] in every waiting frame, the last
\* frame first, around the [this] of the root
RouteValues(cur, frames) == <<cur>> \o Reverse(frames)

\* if (this.isRoot) return [this], and every waiting frame appends itself
RouteReturn ==
  /\ pc = "route" /\ rt.cur.isRoot
  /\ ret' = RouteRet(TRUE, RouteValues(rt.cur, rt.frames), NoError, rt.lookups)
  /\ pc' = "idle"
  /\ rt' = NoRt
  /\ UNCHANGED <<platform, fs, cwd, home, obj, from, ch>>

\* (await this.getParent()).getRoute()
RouteAscend ==
  /\ pc = "route" /\ ~rt.cur.isRoot
  /\ Len(rt.frames) < MaxRoute
  /\ \E r \in {getParent(rt.cur)} :
       IF r.ok
         THEN /\ rt' = [rt EXCEPT !.cur = r.value,
                                  !.frames = Append(@, rt.cur),
                                  !.lookups = @ + r.lookups]
              /\ UNCHANGED <<pc, ret>>
       ELSE /\ ret' = RouteRet(FALSE, <<>>, r.error, rt.lookups + r.lookups)
            /\ pc' = "idle"
            /\ rt' = NoRt
  /\ UNCHANGED <<platform, fs, cwd, home, obj, from, ch>>

Init ==
  /\ platform \in {"posix", "win32"}
  /\ fs \in Trees
  /\ cwd \in {k \in DirKeys : Len(k) <= 1}
  /\ home = HomeKey(fs)
  /\ pc = "idle"
  /\ obj = NoVpath
  /\ from = NoVpath
  /\ ret = NoRet
  /\ ch = NoCh
  /\ rt = NoRt

Next ==
  \/ CreateAny
  \/ GetRoot
  \/ GetHome
  \/ GetParent
  \/ \E i \in 1..Len(ret.values) : Take(i)
  \/ Drop
  \/ Forget
  \/ GetChildrenListingFails
  \/ GetChildrenList
  \/ GetChildrenExecFails
  \/ getChildrenOfWin32Root
  \/ \E i \in ch.pending : LookupSettles(i)
  \/ GetRouteCall
  \/ RouteReturn
  \/ RouteAscend

Spec == Init /\ [][Next]_vars

(***************************************************************************)
(* Properties.                                                             *)
(***************************************************************************)
\* path.isAbsolute
IsAbsolute(path) ==
  IF platform = "win32" THEN Win32Root(path).isAbsolute
  ELSE Len(path) > 0 /\ path[1] = Slash

\* the names of a posix path, in order
NameSegs(path) == SelectSeq(Split(path, PosixSeps), LAMBDA x : x # <<>>)

\* "/", then each ancestor prefix, then the path itself
ExpectedRoutePaths(path) ==
  LET segs == NameSegs(path)
  IN [i \in 1..(Len(segs) + 1) |->
        IF i = Len(segs) + 1 THEN path
        ELSE <<Slash>> \o Join(SubSeq(segs, 1, i - 1), Slash)]

PathsOf(values) == [i \in 1..Len(values) |-> values[i].filePath]

\* every instance the caller has been handed
Handed == {obj, ret.value} \cup {ret.values[i] : i \in 1..Len(ret.values)}

IsWin32RootCall == ret.op = "getChildren" /\ ret.this.vpathType = "WIN32_ROOT"
IsNormalDirCall == ret.op = "getChildren" /\ ret.this.vpathType # "WIN32_ROOT"

\* C1: a getRoute call climbs through finitely many parents and resolves
\* with a sequence that starts at a root: the climb never comes back to an
\* instance it has already left (the parent of an instance is a function of
\* the instance and the file system, so coming back is climbing forever).
C1_GetRouteTerminates ==
  /\ pc = "route" => \A k \in 1..Len(rt.frames) : rt.frames[k] # rt.cur
  /\ (ret.op = "getRoute" /\ ret.ok) => ret.values[1].isRoot

\* C2: on a single-root platform the route of an instance with an absolute
\* path of n >= 1 names has n + 1 elements: "/", each ancestor prefix, and
\* the instance itself; every element after the first is preceded by its
\* own parent, so a route is the parent's route followed by the instance.
C2_RouteOfAbsolutePath ==
  /\ (/\ platform = "posix" /\ ret.op = "getRoute"
      /\ IsAbsolute(ret.this.filePath)
      /\ Len(NameSegs(ret.this.filePath)) >= 1)
     => /\ ret.ok
        /\ PathsOf(ret.values) = ExpectedRoutePaths(ret.this.filePath)
        /\ ret.values[1].isRoot
        /\ Last(ret.values) = ret.this
        /\ \A i \in 2..Len(ret.values) : ~ret.values[i].isRoot
  /\ (platform = "posix" /\ ret.op = "getRoute" /\ ret.ok)
     => \A i \in 2..Len(ret.values) :
          getParent(ret.values[i]).value = ret.values[i - 1]

C2_Witness ==
  /\ platform = "posix" /\ ret.op = "getRoute" /\ ret.ok
  /\ PathsOf(ret.values) =
       << <<Slash>>, <<Slash, "a">>, <<Slash, "a", Slash, "b">>,
          <<Slash, "a", Slash, "b", Slash, "a">> >>

\* C3: on a single-root platform create('/') is a root, and its parent has
\* the path '/'.
C3_CreateSlashIsRoot ==
  (platform = "posix" /\ ret.op = "create" /\ ret.arg = <<Slash>>)
    => /\ ret.ok
       /\ ret.value.isRoot
       /\ getParent(ret.value).value.filePath = <<Slash>>

\* C4: what getRoot returns is a root, and getParent on a root returns that
\* very instance, with no metadata lookup and no failure, as often as it is
\* called.
C4_RootIsOwnParent ==
  /\ (ret.op = "getRoot" /\ ret.ok) => ret.value.isRoot
  /\ (ret.op = "getParent" /\ ret.this.isRoot)
       => /\ ret.ok
          /\ ret.value = ret.this
          /\ ret.lookups = 0
          /\ obj = ret.this

C4_Witness ==
  /\ ret.op = "getParent" /\ ret.this.vpathType = "WIN32_ROOT"
  /\ ret.value.isRoot

\* C5: on a multi-root platform the children of the root, when every
\* per-drive lookup succeeds, are the drives in ascending letter order, none
\* of them a root, each a directory or not as its lookup says.
C5_DrivesAscending ==
  (IsWin32RootCall /\ ret.ok)
    => /\ Len(ret.values) = Len(ret.entries)
       /\ \A i \in 1..Len(ret.values) :
            /\ ~ret.values[i].isRoot
            /\ ret.values[i].isDirectory = Stat(ret.entries[i]).isDirectory
            /\ ret.values[i].filePath[1] = ret.entries[i][1]
       /\ \A i, j \in 1..Len(ret.values) :
            i < j => CharCode(ret.values[i].filePath[1])
                       <= CharCode(ret.values[j].filePath[1])
       /\ {ret.entries[i] : i \in 1..Len(ret.entries)} =
            {DrivePath(DriveToken(l)) :
               l \in {x \in {SplitLines(ret.arg)[k] :
                               k \in 1..Len(SplitLines(ret.arg))} :
                        Len(DriveToken(x)) = 1}}

C5_Witness ==
  /\ IsWin32RootCall /\ ret.ok
  /\ Len(ret.values) = 2
  /\ ret.arg[1] = "d"
  /\ ret.values[1].filePath[1] = "C"
  /\ ret.values[2].filePath[1] = "D"

\* C6: getChildren resolves only when the listing and every per-entry
\* lookup succeeded, and then with one element per entry; when the listing
\* fails (as it does on a plain file) or one lookup fails, it rejects with
\* that failure and hands over no sequence.
C6_AllOrNothing ==
  ret.op = "getChildren"
    => /\ ret.ok <=> (ret.listed /\ \A i \in 1..Len(ret.entries) :
                                      Stat(ret.entries[i]).ok)
       /\ ret.ok => /\ Len(ret.values) = Len(ret.entries)
                    /\ \A i \in 1..Len(ret.values) : ret.values[i] # NoVpath
       /\ ~ret.ok
            => /\ ret.values = <<>>
               /\ ~ret.listed => ret.error.syscall \in {"scandir", "exec"}
               /\ ret.listed
                    => \E i \in 1..Len(ret.entries) :
                         /\ ~Stat(ret.entries[i]).ok
                         /\ ret.error = [syscall |-> "stat", path |-> ret.entries[i]]
       /\ (ret.this.isFile /\ ~ret.this.isRoot) => (~ret.listed /\ ~ret.ok)

C6_Witness ==
  /\ ret.op = "getChildren" /\ ~ret.ok /\ ret.listed
  /\ Len(ret.entries) = 2
  /\ Len(ret.order) = 2
  /\ Stat(ret.entries[ret.order[1]]).ok

\* C7: every instance handed to the caller has a normalized absolute path,
\* except the synthetic root of a multi-root platform, whose path is empty
\* and whose flags are not-file, directory, not-symlink, not-other.
C7_PathNormalizedAbsolute ==
  \A v \in Handed \ {NoVpath} :
    IF v.vpathType = "WIN32_ROOT"
      THEN /\ v.filePath = <<>>
           /\ ~v.isFile /\ v.isDirectory /\ ~v.isSymbolicLink
           /\ ~v.isOtherFileType
    ELSE /\ IsAbsolute(v.filePath)
         /\ Normalize(v.filePath) = v.filePath

\* C8: the synthetic root gets a child for a line of the command's output
\* exactly when the line, colons stripped and uppercased, is one letter;
\* output with no such line gives an empty sequence, not a failure.
C8_OnlyLetterLines ==
  (IsWin32RootCall /\ ret.listed)
    => /\ \A i \in 1..Len(ret.entries) : ret.entries[i][1] \in UpperLetters
       /\ (\A k \in 1..Len(SplitLines(ret.arg)) :
             ~(/\ Len(DriveToken(SplitLines(ret.arg)[k])) = 1
               /\ DriveToken(SplitLines(ret.arg)[k])[1] \in UpperLetters))
            => (ret.ok /\ ret.values = <<>>)

\* C9: getChildren on a normal directory resolves only after all n lookups
\* have settled, with n elements, the i-th being the i-th listed entry
\* resolved against the directory, whatever the order the lookups settled in.
C9_ListingOrderKept ==
  /\ (IsNormalDirCall /\ ret.ok)
       => /\ Len(ret.values) = Len(ret.listing)
          /\ {ret.order[k] : k \in 1..Len(ret.order)} = 1..Len(ret.listing)
          /\ Len(ret.order) = Len(ret.listing)
          /\ \A i \in 1..Len(ret.listing) :
               ret.values[i].filePath = Resolve(ret.this.filePath, ret.listing[i])
  /\ (pc = "children" /\ ch.pending # {}) => ret = NoRet

C9_Witness ==
  /\ IsNormalDirCall /\ ret.ok
  /\ Len(ret.listing) = 2
  /\ ret.order = <<2, 1>>
  /\ ret.values[1].filePath # ret.values[2].filePath

\* C10: the parent of every child that getChildren returned is found, and
\* has the path of the instance the children were asked of.
C10_ParentOfChild ==
  (ret.op = "getParent" /\ ret.from # NoVpath)
    => (ret.ok /\ ret.value.filePath = ret.from.filePath)
====
